---- MODULE Spec2Model ----
(***************************************************************************)
(* Model of the purchase-order reader: the document-ai route's entity      *)
(* flattener (processEntity / extractTextFromAnchor) and the page's        *)
(* derived values (header fields, item rows, product reconciliation, CSV   *)
(* export).  A JavaScript string is a sequence of one-character strings.   *)
(***************************************************************************)
EXTENDS Integers, Sequences, FiniteSets, TLC

VARIABLES
    request,    \* route.ts: the request POST serves and what Document AI answers to it
    response,   \* route.ts: the JSON body POST answers with
    entities,   \* page: useState<ExtractedEntity[]>
    products,   \* page: useState<Product[]>
    view,       \* page: what the last render put on screen
    csv,        \* page: the payload of the last CSV download
    selectedFile,   \* page: useState<File | null>
    isLoading,      \* page: useState(false)
    error,          \* page: useState<string>('')
    processorType,  \* page: useState<ProcessorType>('sannote')
    productsFetch   \* page: how far the fetch of /api/products has come; at
                    \* "undefined" the products state holds undefined

pageVars == <<selectedFile, isLoading, error, processorType, productsFetch>>
vars == <<request, response, entities, products, view, csv, pageVars>>

\* ------------------------------------------------------------------ bounds
MaxCodeLen == 5     \* longest extracted text drawn for a property value
MaxProps == 2       \* most child properties drawn for one item
MaxTop == 3         \* most top-level entities drawn for one forest
MaxOffset == 4      \* largest character offset drawn for a text segment
MaxSegs == 2        \* most text segments drawn for one text anchor
MaxFieldLen == 3    \* longest cell text drawn for the CSV export
MaxRows == 3        \* most top-level entities drawn for the CSV export
MaxDepth == 2       \* most levels of children drawn below a raw entity

\* ------------------------------------------------------------ JS strings
Empty == <<>>
Dash == <<"-">>

Min(a, b) == IF a < b THEN a ELSE b
Max(a, b) == IF a < b THEN b ELSE a

\* String.prototype.substring(a, b): both ends clamped to [0, length], and
\* swapped when a > b.
Clamp(n, len) == Max(0, Min(n, len))
Substring(s, a, b) ==
    LET ca == Clamp(a, Len(s))
        cb == Clamp(b, Len(s))
    IN  SubSeq(s, Min(ca, cb) + 1, Max(ca, cb))

\* Array.prototype.filter(e => types.includes(e.type)), keeping order.
FilterByType(seq, types) ==
    LET kept[i \in 0..Len(seq)] ==
            IF i = 0 THEN <<>>
            ELSE IF seq[i].type \in types THEN Append(kept[i - 1], seq[i])
                 ELSE kept[i - 1]
    IN  kept[Len(seq)]

\* The index Array.prototype.find stops at: the first one in hits, 0 when
\* find returns undefined.
FirstIndex(hits) ==
    IF hits = {} THEN 0 ELSE CHOOSE i \in hits : \A j \in hits : i <= j

\* find(e => e.type === type)
FindByType(seq, type) == FirstIndex({i \in DOMAIN seq : seq[i].type = type})

\* find(p => p.product_code === code)
FindByCode(prods, code) == FirstIndex({i \in DOMAIN prods : prods[i].product_code = code})

\* ------------------------------------------------ route.ts: flattening
\* An optional field (absent, null or undefined in the IEntity) is <<>> when
\* absent and <<v>> when it holds v.
Absent == <<>>
Some(v) == <<v>>

\* x || 0 for an optional number, x || '' for an optional string.
\* A default of 1 (100 hundredths) for a missing number.
NumberOr0_DefaultOne(opt) == IF opt = Absent THEN 100 ELSE opt[1]

NumberOr0(opt) == IF opt = Absent THEN 0 ELSE opt[1]
StringOrEmpty(opt) == IF opt = Absent THEN Empty ELSE opt[1]

\* String.prototype.trim
IsSpace(c) == c \in {" ", "\n", "\t", "\r"}
RECURSIVE TrimStart(_)
TrimStart(s) == IF s /= <<>> /\ IsSpace(Head(s)) THEN TrimStart(Tail(s)) ELSE s
RECURSIVE TrimEnd(_)
TrimEnd(s) ==
    IF s /= <<>> /\ IsSpace(s[Len(s)]) THEN TrimEnd(SubSeq(s, 1, Len(s) - 1)) ELSE s
Trim(s) == TrimEnd(TrimStart(s))

\* Array.prototype.join with the separator sep, of an array of strings.
RECURSIVE Join(_, _)
Join(parts, sep) ==
    IF parts = <<>> THEN <<>>
    ELSE IF Len(parts) = 1 THEN parts[1]
         ELSE parts[1] \o sep \o Join(Tail(parts), sep)

SegmentText(segment, fullText) ==
    Substring(fullText, NumberOr0(segment.startIndex), NumberOr0(segment.endIndex))

extractTextFromAnchor(textAnchor, fullText) ==
    IF textAnchor = Absent \/ textAnchor[1].textSegments = Absent
       \/ textAnchor[1].textSegments[1] = <<>>
    THEN Empty
    ELSE LET segments == textAnchor[1].textSegments[1]
         IN  Trim(Join([i \in DOMAIN segments |-> SegmentText(segments[i], fullText)], <<>>))

\* A page reference read one too high.
FirstPage_Shifted(pageAnchor) ==
    IF pageAnchor = Absent \/ pageAnchor[1].pageRefs = Absent
       \/ pageAnchor[1].pageRefs[1] = <<>>
    THEN 1
    ELSE NumberOr0(pageAnchor[1].pageRefs[1][1].page) + 1

\* entity.pageAnchor?.pageRefs?.[0]?.page || 0
FirstPage(pageAnchor) ==
    IF pageAnchor = Absent \/ pageAnchor[1].pageRefs = Absent
       \/ pageAnchor[1].pageRefs[1] = <<>>
    THEN 0
    ELSE NumberOr0(pageAnchor[1].pageRefs[1][1].page)

\* A value that keeps an empty mention text (?? in place of ||).
EntityValue_Nullish(entity, fullText) ==
    IF entity.mentionText /= Absent
    THEN entity.mentionText[1]
    ELSE extractTextFromAnchor(entity.textAnchor, fullText)

\* entity.mentionText || extractTextFromAnchor(entity.textAnchor, fullText)
EntityValue(entity, fullText) ==
    IF StringOrEmpty(entity.mentionText) /= Empty
    THEN entity.mentionText[1]
    ELSE extractTextFromAnchor(entity.textAnchor, fullText)

\* A flattening that stops one level down: the children lose their children.
processEntity_Shallow(entity, fullText) ==
    LET node(e) ==
            [type            |-> IF e.type = Absent THEN "" ELSE e.type[1],
             value           |-> EntityValue(e, fullText),
             confidence      |-> NumberOr0(e.confidence),
             normalizedValue |-> IF e.normalizedValue = Absent THEN Empty
                                 ELSE StringOrEmpty(e.normalizedValue[1].text),
             page            |-> FirstPage(e.pageAnchor) + 1,
             properties      |-> <<>>]
    IN  [node(entity) EXCEPT !.properties =
            IF entity.properties = Absent THEN <<>>
            ELSE [i \in DOMAIN entity.properties[1] |-> node(entity.properties[1][i])]]

\* confidence is held in hundredths.
RECURSIVE processEntity(_, _)
processEntity(entity, fullText) ==
    [type            |-> IF entity.type = Absent THEN "" ELSE entity.type[1],
     value           |-> EntityValue(entity, fullText),
     confidence      |-> NumberOr0(entity.confidence),
     normalizedValue |-> IF entity.normalizedValue = Absent THEN Empty
                         ELSE StringOrEmpty(entity.normalizedValue[1].text),
     page            |-> FirstPage(entity.pageAnchor) + 1,
     properties      |-> IF entity.properties = Absent THEN <<>>
                         ELSE [i \in DOMAIN entity.properties[1] |->
                                  processEntity(entity.properties[1][i], fullText)]]

\* What the request carries and what processDocument answers: a document,
\* no document, or an exception.
NoRequest == [hasFile |-> FALSE, hasEnv |-> FALSE, outcome |-> "none",
              text |-> Absent, entities |-> Absent, pages |-> Absent]
NoResponse == [status |-> 0, error |-> "", entities |-> Absent, text |-> Empty,
               pageCount |-> 0, success |-> FALSE]

ErrorResponse(status, message) ==
    [status |-> status, error |-> message, entities |-> Absent, text |-> Empty,
     pageCount |-> 0, success |-> FALSE]

\* The answer for a document: its text and its flattened entities.
DocumentResponse(text, rawEntities, pages) ==
    LET fullText == StringOrEmpty(text)
    IN  [status    |-> 200,
         error     |-> "",
         entities  |-> Some(IF rawEntities = Absent THEN <<>>
                            ELSE [i \in DOMAIN rawEntities[1] |->
                                     processEntity(rawEntities[1][i], fullText)]),
         text      |-> Trim(fullText),
         pageCount |-> IF pages = Absent THEN 0 ELSE Len(pages[1]),
         success   |-> TRUE]

\* A handler that answers a missing document as a document without entities
\* (document?.entities in place of the !document check).
PostResponse_MissingAsEmpty(req) ==
    IF ~req.hasFile THEN ErrorResponse(400, "file not found")
    ELSE IF ~req.hasEnv THEN ErrorResponse(500, "environment not set")
    ELSE IF req.outcome = "throws" THEN ErrorResponse(500, "processing error")
    ELSE IF req.outcome = "none" THEN DocumentResponse(Absent, Absent, Absent)
    ELSE DocumentResponse(req.text, req.entities, req.pages)

PostResponse(req) ==
    IF ~req.hasFile THEN ErrorResponse(400, "file not found")
    ELSE IF ~req.hasEnv THEN ErrorResponse(500, "environment not set")
    ELSE IF req.outcome = "throws" THEN ErrorResponse(500, "processing error")
    ELSE IF req.outcome = "none" THEN ErrorResponse(500, "document analysis failed")
    ELSE DocumentResponse(req.text, req.entities, req.pages)

\* POST /api/document-ai, from the request to the JSON response.
Post ==
    /\ request /= NoRequest
    /\ response = NoResponse
    /\ response' = PostResponse(request)
    /\ UNCHANGED <<request, entities, products, view, csv, pageVars>>

\* ------------------------------------------------------- page constants
HEADER_FIELDS == <<"address", "name", "delivery_phone_number", "order_date", "order_number">>

\* Each label is one token: the labels hold no comma, quote or line break.
ITEM_COLUMNS == <<
    [key |-> "jan_code",          label |-> <<"L_jan_code">>],
    [key |-> "product_code",      label |-> <<"L_product_code">>],
    [key |-> "product_name",      label |-> <<"L_product_name">>],
    [key |-> "quantity_per_case", label |-> <<"L_quantity_per_case">>],
    [key |-> "box_count",         label |-> <<"L_box_count">>],
    [key |-> "case_count",        label |-> <<"L_case_count">>],
    [key |-> "quantity",          label |-> <<"L_quantity">>],
    [key |-> "unit_price",        label |-> <<"L_unit_price">>],
    [key |-> "amount",            label |-> <<"L_amount">>],
    [key |-> "delivery_date",     label |-> <<"L_delivery_date">> ] >>

ColumnKeys == {ITEM_COLUMNS[i].key : i \in DOMAIN ITEM_COLUMNS}

Elements(seq) == {seq[i] : i \in DOMAIN seq}

\* --------------------------------------------------- page derived values
headerEntities(ents) == FilterByType(ents, Elements(HEADER_FIELDS))

\* A promotion that takes the fields of every recipient_company entity.
recipientProperties_All(ents) ==
    LET promoted[i \in 0..Len(ents)] ==
            IF i = 0 THEN <<>>
            ELSE IF ents[i].type = "recipient_company"
                 THEN promoted[i - 1] \o FilterByType(ents[i].properties, {"name", "address"})
                 ELSE promoted[i - 1]
    IN  promoted[Len(ents)]

\* entities.find(e => e.type === 'recipient_company')?.properties.filter(...) || []
recipientProperties(ents) ==
    LET rc == FindByType(ents, "recipient_company")
    IN  IF rc = 0 THEN <<>>
        ELSE FilterByType(ents[rc].properties, {"name", "address"})

\* A header that lists the promoted company fields first.
allHeaderEntities_CompanyFirst(ents) == recipientProperties(ents) \o headerEntities(ents)

allHeaderEntities(ents) == headerEntities(ents) \o recipientProperties(ents)

\* An item list that also collects the items nested one level down.
itemEntities_Nested(ents) ==
    LET collected[i \in 0..Len(ents)] ==
            IF i = 0 THEN <<>>
            ELSE collected[i - 1]
                 \o (IF ents[i].type = "item" THEN <<ents[i]>> ELSE <<>>)
                 \o FilterByType(ents[i].properties, {"item"})
    IN  collected[Len(ents)]

itemEntities(ents) == FilterByType(ents, {"item"})

\* A getPropertyValue that skips a first match with nothing to show and falls
\* through to a later child of the same type.
getPropertyValue_AnyMatch(item, key) ==
    LET i == FirstIndex({j \in DOMAIN item.properties :
                            /\ item.properties[j].type = key
                            /\ \/ item.properties[j].value /= Empty
                               \/ item.properties[j].normalizedValue /= Empty})
    IN  IF i /= 0 /\ item.properties[i].value /= Empty
        THEN item.properties[i].value
        ELSE IF i /= 0 THEN item.properties[i].normalizedValue ELSE Dash

\* prop?.value || prop?.normalizedValue || '-'
getPropertyValue(item, key) ==
    LET i == FindByType(item.properties, key)
    IN  IF i /= 0 /\ item.properties[i].value /= Empty
        THEN item.properties[i].value
        ELSE IF i /= 0 /\ item.properties[i].normalizedValue /= Empty
             THEN item.properties[i].normalizedValue
             ELSE Dash

\* A normalisation that keeps the last four characters instead of the first.
normalizeAndValidateProductCode_Suffix(item, prods) ==
    LET originalCode == getPropertyValue(item, "product_code")
        normalizedCode == IF Len(originalCode) >= 4
                          THEN Substring(originalCode, Len(originalCode) - 4, Len(originalCode))
                          ELSE originalCode
        m == FindByCode(prods, normalizedCode)
    IN  [normalizedCode |-> normalizedCode,
         matchedProduct |-> IF m = 0 THEN <<>> ELSE <<prods[m]>>,
         originalCode   |-> originalCode]

\* A normalization that cuts the first character off a long code.
normalizeAndValidateProductCode_DropsFirst(item, prods) ==
    LET originalCode == getPropertyValue(item, "product_code")
        normalizedCode == IF Len(originalCode) >= 4
                          THEN Substring(originalCode, 1, 5)
                          ELSE originalCode
        m == FindByCode(prods, normalizedCode)
    IN  [normalizedCode |-> normalizedCode,
         matchedProduct |-> IF m = 0 THEN <<>> ELSE <<prods[m]>>,
         originalCode   |-> originalCode]

\* matchedProduct is <<>> for undefined and <<p>> for the product found.
normalizeAndValidateProductCode(item, prods) ==
    LET originalCode == getPropertyValue(item, "product_code")
        normalizedCode == IF Len(originalCode) >= 4
                          THEN Substring(originalCode, 0, 4)
                          ELSE originalCode
        m == FindByCode(prods, normalizedCode)
    IN  [normalizedCode |-> normalizedCode,
         matchedProduct |-> IF m = 0 THEN <<>> ELSE <<prods[m]>>,
         originalCode   |-> originalCode]

\* A substitution that truncates the code whether or not the master has it.
getCorrectedValue_AlwaysTruncate(item, key, prods) ==
    IF key = "product_code"
    THEN normalizeAndValidateProductCode(item, prods).normalizedCode
    ELSE IF key = "product_name"
         THEN LET r == normalizeAndValidateProductCode(item, prods)
              IN  IF Len(r.originalCode) >= 4 /\ r.matchedProduct /= <<>>
                  THEN r.matchedProduct[1].product_name
                  ELSE getPropertyValue(item, key)
         ELSE getPropertyValue(item, key)

\* A substitution whose name branch is taken for every key but product_code.
getCorrectedValue_AnyColumn(item, key, prods) ==
    LET r == normalizeAndValidateProductCode(item, prods)
    IN  IF key = "product_code"
        THEN IF Len(r.originalCode) >= 4 /\ r.matchedProduct /= <<>>
             THEN r.normalizedCode
             ELSE r.originalCode
        ELSE IF Len(r.originalCode) >= 4 /\ r.matchedProduct /= <<>>
             THEN r.matchedProduct[1].product_name
             ELSE getPropertyValue(item, key)

getCorrectedValue(item, key, prods) ==
    IF key = "product_code" \/ key = "product_name"
    THEN LET r == normalizeAndValidateProductCode(item, prods)
         IN  IF key = "product_code"
             THEN IF Len(r.originalCode) >= 4 /\ r.matchedProduct /= <<>>
                  THEN r.normalizedCode
                  ELSE r.originalCode
             ELSE IF Len(r.originalCode) >= 4 /\ r.matchedProduct /= <<>>
                  THEN r.matchedProduct[1].product_name
                  ELSE getPropertyValue(item, key)
    ELSE getPropertyValue(item, key)

\* A flag that forgets the length test.
hasNoMatch_AnyLength(item, prods) ==
    normalizeAndValidateProductCode(item, prods).matchedProduct = <<>>

\* One <tr> of the item table.
hasNoMatch(item, prods) ==
    LET r == normalizeAndValidateProductCode(item, prods)
    IN  Len(r.originalCode) >= 4 /\ r.matchedProduct = <<>>

ItemRow(item, prods) ==
    [item           |-> item,
     normalizedCode |-> normalizeAndValidateProductCode(item, prods).normalizedCode,
     matchedProduct |-> normalizeAndValidateProductCode(item, prods).matchedProduct,
     originalCode   |-> normalizeAndValidateProductCode(item, prods).originalCode,
     hasNoMatch     |-> hasNoMatch(item, prods),
     cells          |-> [k \in ColumnKeys |-> getCorrectedValue(item, k, prods)]]

ItemTable(ents, prods) ==
    LET items == itemEntities(ents)
    IN  [i \in DOMAIN items |-> ItemRow(items[i], prods)]

\* ------------------------------------------------------------- the page
NoView == [rendered |-> FALSE, crashed |-> FALSE, header |-> <<>>, rows |-> <<>>]
\* A render that threw: React unmounts the page.
CrashedView == [rendered |-> FALSE, crashed |-> TRUE, header |-> <<>>, rows |-> <<>>]
NoCsv == [called |-> FALSE, downloaded |-> FALSE, rows |-> <<>>, payload |-> <<>>]

\* A render of Home: the header cards (one per allHeaderEntities element) and
\* the item table (one <tr> per item entity).
HomeView(ents, prods, fetch) ==
    IF fetch = "undefined" /\ itemEntities(ents) /= <<>>
    THEN CrashedView    \* products.find on undefined: a TypeError in the row map
    ELSE [rendered |-> TRUE,
          crashed  |-> FALSE,
          header   |-> allHeaderEntities(ents),
          rows     |-> ItemTable(ents, prods)]

\* A render that writes the corrected product code back into the item.
Render_InPlace ==
    LET corrected(item) ==
            [item EXCEPT !.properties =
                [k \in DOMAIN item.properties |->
                    IF item.properties[k].type = "product_code"
                    THEN [item.properties[k] EXCEPT
                             !.value = getCorrectedValue(item, "product_code", products)]
                    ELSE item.properties[k]]]
    IN  /\ view' = HomeView(entities, products, productsFetch)
        /\ entities' = [i \in DOMAIN entities |->
                            IF entities[i].type = "item" THEN corrected(entities[i])
                            ELSE entities[i]]
        /\ UNCHANGED <<request, response, products, csv, pageVars>>

Render ==
    /\ view' = HomeView(entities, products, productsFetch)
    /\ UNCHANGED <<request, response, entities, products, csv, pageVars>>

\* ------------------------------------------------------------ CSV export
BOM == <<"BOM">>
Comma == <<",">>
Quote == <<"\"">>
LineFeed == <<"\n">>

\* A replacement that leaves the quotes single.
DoubleQuotes_Single(value) == value

\* value.replace(/"/g, '""')
RECURSIVE DoubleQuotes(_)
DoubleQuotes(value) ==
    IF value = <<>> THEN <<>>
    ELSE (IF Head(value) = Quote[1] THEN Quote \o Quote ELSE <<Head(value)>>)
         \o DoubleQuotes(Tail(value))

Contains(value, c) == \E i \in DOMAIN value : value[i] = c[1]

\* An encoding that quotes for a comma or a line break only.
CsvField_ForgetsQuote(value) ==
    IF Contains(value, Comma) \/ Contains(value, LineFeed)
    THEN Quote \o DoubleQuotes(value) \o Quote
    ELSE value

CsvField(value) ==
    IF Contains(value, Comma) \/ Contains(value, LineFeed) \/ Contains(value, Quote)
    THEN Quote \o DoubleQuotes(value) \o Quote
    ELSE value

\* Rows that export the raw resolved values, without the substitution.
CsvRows_Raw(items, prods) ==
    [i \in DOMAIN items |->
        [c \in DOMAIN ITEM_COLUMNS |->
            CsvField(getPropertyValue(items[i], ITEM_COLUMNS[c].key))]]

CsvRows(items, prods) ==
    [i \in DOMAIN items |->
        [c \in DOMAIN ITEM_COLUMNS |->
            CsvField(getCorrectedValue(items[i], ITEM_COLUMNS[c].key, prods))]]

CsvContent(items, prods) ==
    LET headers == [c \in DOMAIN ITEM_COLUMNS |-> ITEM_COLUMNS[c].label]
        rows == CsvRows(items, prods)
    IN  BOM \o Join(<<Join(headers, Comma)>>
                    \o [i \in DOMAIN rows |-> Join(rows[i], Comma)], LineFeed)

\* An export without the early return.
handleDownloadCsv_NoGuard(ents, prods) ==
    [called     |-> TRUE,
     downloaded |-> TRUE,
     rows       |-> CsvRows(itemEntities(ents), prods),
     payload    |-> CsvContent(itemEntities(ents), prods)]

\* downloaded: link.click() was reached with payload as the blob's text.
handleDownloadCsv(ents, prods) ==
    IF Len(itemEntities(ents)) = 0
    THEN [called |-> TRUE, downloaded |-> FALSE, rows |-> <<>>, payload |-> <<>>]
    ELSE [called     |-> TRUE,
          downloaded |-> TRUE,
          rows       |-> CsvRows(itemEntities(ents), prods),
          payload    |-> CsvContent(itemEntities(ents), prods)]

DownloadCsv ==
    /\ csv' = handleDownloadCsv(entities, products)
    /\ UNCHANGED <<request, response, entities, products, view, pageVars>>

\* ----------------------------------------------------------- the inputs
\* Strings over alphabet of length at most n.
RECURSIVE Strings(_, _)
Strings(alphabet, n) ==
    IF n = 0 THEN {<<>>}
    ELSE LET shorter == Strings(alphabet, n - 1)
         IN  shorter \cup {Append(s, c) : s \in shorter, c \in alphabet}

\* Sequences over S of length at most n.
SeqsUpTo(S, n) == UNION {[1..k -> S] : k \in 0..n}

\* Extracted product codes: digit strings of every length up to MaxCodeLen.
Codes == Strings({"1", "2"}, MaxCodeLen)

\* A flattened entity as the route returns it (ExtractedEntity).
Node(type, value, normalizedValue, properties) ==
    [type |-> type, value |-> value, confidence |-> 0,
     normalizedValue |-> normalizedValue, page |-> 1, properties |-> properties]

NormText == <<"n">>

\* The child properties of an item whose extracted texts are "" or text.
PropTypes == {"product_code", "product_name", "quantity"}
PropsOf(text) ==
    {Node(t, v, nv, <<>>) : t \in PropTypes, v \in {Empty, text}, nv \in {Empty, NormText}}

\* The product master (data/products.json): codes are unique.
ProductA == [id |-> 1, product_code |-> <<"1", "1", "1", "1">>, product_name |-> <<"A">>,
             purchase_price |-> 10, sales_price |-> 20]
ProductB == [id |-> 2, product_code |-> <<"1", "1", "1", "2">>, product_name |-> <<"B">>,
             purchase_price |-> 10, sales_price |-> 20]
ProductC == [id |-> 3, product_code |-> <<"1", "1", "1">>, product_name |-> <<"C">>,
             purchase_price |-> 10, sales_price |-> 20]
Catalogs == {<<>>, <<ProductA>>, <<ProductB, ProductA>>, <<ProductC, ProductB>>}

\* The page state of the specifications that study one function: no file,
\* no request under way, the product master loaded.
PageAtRest ==
    /\ selectedFile = Absent
    /\ isLoading = FALSE
    /\ error = ""
    /\ processorType = "sannote"
    /\ productsFetch = "loaded"

\* ------------------------------------------------- item reconciliation
\* One item entity with drawn properties, reconciled against a drawn
\* catalog and rendered.
InitItem ==
    /\ request = NoRequest
    /\ response = NoResponse
    /\ \E text \in Codes : \E props \in SeqsUpTo(PropsOf(text), MaxProps) :
          entities = <<Node("item", Empty, Empty, props)>>
    /\ products \in Catalogs
    /\ view = NoView
    /\ csv = NoCsv
    /\ PageAtRest

NextItem == Render

SpecItem == InitItem /\ [][NextItem]_vars

\* ------------------------------------------------ header and item rows
\* A forest of top-level entities: header fields, recipient companies, items
\* and entities of a type the page does not show, in every order.
Leaf(type, text) == Node(type, text, Empty, <<>>)

ChildLists ==
    {<<>>,
     <<Leaf("name", <<"A">>)>>,
     <<Leaf("address", <<"T">>), Leaf("name", <<"B">>)>>,
     <<Leaf("phone", <<"0">>), Leaf("name", <<"C">>), Leaf("item", <<"i">>)>>,
     <<Leaf("item", <<"j">>), Leaf("product_code", <<"1", "1", "1", "1">>)>>}

TopNodes ==
    {Leaf("order_date", <<"d">>), Leaf("name", <<"N">>), Leaf("total", <<"9">>)}
    \cup {Node("recipient_company", Empty, Empty, c) : c \in ChildLists}
    \cup {Node("item", Empty, Empty, c) : c \in ChildLists}

InitForest ==
    /\ request = NoRequest
    /\ response = NoResponse
    /\ entities \in SeqsUpTo(TopNodes, MaxTop)
    /\ products \in Catalogs
    /\ view = NoView
    /\ csv = NoCsv
    /\ PageAtRest

NextForest == Render

SpecForest == InitForest /\ [][NextForest]_vars

\* ------------------------------------------------------ value of a node
\* One raw entity whose mention text and text anchor are drawn, over a drawn
\* full text.
FullTexts == {Absent, Some(<<>>), Some(<<"a", " ", "b">>), Some(<<" ", "a", "b", " ">>)}
Mentions == {Absent, Some(<<>>), Some(<<"m">>), Some(<<" ", "m", " ">>)}

\* Segments as Document AI writes them: start <= end, and an offset of 0 may
\* be left out.
Offsets == 0..MaxOffset
Segments == {[startIndex |-> Some(a), endIndex |-> Some(b)] : a \in Offsets, b \in Offsets}
TextSegments ==
    {sg \in Segments : sg.startIndex[1] <= sg.endIndex[1]}
    \cup {[startIndex |-> Absent, endIndex |-> Some(b)] : b \in Offsets}
    \cup {[startIndex |-> a, endIndex |-> Absent] : a \in {Absent, Some(0)}}
Anchors ==
    {Absent, Some([textSegments |-> Absent])}
    \cup {Some([textSegments |-> Some(sgs)]) : sgs \in SeqsUpTo(TextSegments, MaxSegs)}

RawEntity(type, mentionText, textAnchor) ==
    [type |-> Some(type), mentionText |-> mentionText, textAnchor |-> textAnchor,
     confidence |-> Some(95), normalizedValue |-> Absent, pageAnchor |-> Absent,
     properties |-> Absent]

InitValue ==
    /\ \E text \in FullTexts, mention \in Mentions, anchor \in Anchors :
          request = [hasFile |-> TRUE, hasEnv |-> TRUE, outcome |-> "document",
                     text |-> text,
                     entities |-> Some(<<RawEntity("order_date", mention, anchor)>>),
                     pages |-> Some(<<1>>)]
    /\ response = NoResponse
    /\ entities = <<>>
    /\ products = <<>>
    /\ view = NoView
    /\ csv = NoCsv
    /\ PageAtRest

NextValue == Post

SpecValue == InitValue /\ [][NextValue]_vars

\* ------------------------------------------------------ the POST handler
\* Raw entities (IEntity) with every optional field present and missing, and
\* trees of them up to MaxDepth levels of children.
RawNode(type, mentionText, textAnchor, confidence, normalizedValue, pageAnchor, properties) ==
    [type |-> type, mentionText |-> mentionText, textAnchor |-> textAnchor,
     confidence |-> confidence, normalizedValue |-> normalizedValue,
     pageAnchor |-> pageAnchor, properties |-> properties]

PageAt(page) == Some([pageRefs |-> Some(<<[page |-> page]>>)])
FirstWord == Some([textSegments |-> Some(<<[startIndex |-> Absent, endIndex |-> Some(1)]>>)])

RawItem == RawNode(Some("item"), Some(<<"m">>), Absent, Some(100),
                   Some([text |-> Some(<<"n">>)]), PageAt(Some(2)), Absent)
RawName == RawNode(Some("name"), Absent, FirstWord, Absent, Absent, Absent, Some(<<>>))
RawQuantity == RawNode(Some("quantity"), Some(<<" ", "q">>), Absent, Some(50), Absent,
                       Some([pageRefs |-> Some(<<>>)]), Some(<<>>))
RawCode == RawNode(Some("product_code"), Some(<<"1">>), Absent, Some(95), Absent,
                   PageAt(Some(0)), Absent)
RawUntyped == RawNode(Absent, Some(<<>>), Absent, Some(0), Some([text |-> Absent]),
                      Some([pageRefs |-> Absent]), Absent)
RawAddress == RawNode(Some("address"), Absent, Absent, Some(1), Some([text |-> Some(<<>>)]),
                      PageAt(Absent), Absent)

RawLeaves == {RawItem, RawName, RawQuantity, RawCode, RawUntyped, RawAddress}
RawParents == {RawItem, RawName}
RawSiblings == {RawQuantity, RawCode}

RECURSIVE RawTrees(_)
RawTrees(depth) ==
    IF depth = 0 THEN RawLeaves
    ELSE LET below == RawTrees(depth - 1)
             children == {<<t>> : t \in below}
                         \cup {<<t, s>> : t \in below, s \in RawSiblings}
                         \cup {<<s, t>> : t \in below, s \in RawSiblings}
         IN  RawLeaves \cup {[p EXCEPT !.properties = Some(c)] : p \in RawParents, c \in children}

RawForests(depth) ==
    {Absent, Some(<<>>)}
    \cup {Some(<<t>>) : t \in RawTrees(depth)}
    \cup {Some(<<t, s>>) : t \in RawTrees(depth), s \in RawSiblings}
    \cup {Some(<<s, t>>) : t \in RawTrees(depth), s \in RawSiblings}

RouteText == Some(<<"a", " ", "b">>)

\* A document of any drawn shape, and every way of failing before it.
RouteRequests ==
    {[hasFile |-> TRUE, hasEnv |-> TRUE, outcome |-> "document", text |-> RouteText,
      entities |-> forest, pages |-> pages] :
        forest \in RawForests(MaxDepth), pages \in {Absent, Some(<<1, 2>>)}}
    \cup {[hasFile |-> hasFile, hasEnv |-> hasEnv, outcome |-> outcome, text |-> RouteText,
           entities |-> forest, pages |-> Absent] :
             hasFile \in BOOLEAN, hasEnv \in BOOLEAN,
             outcome \in {"throws", "none", "document"}, forest \in RawForests(0)}

InitRoute ==
    /\ request \in RouteRequests
    /\ response = NoResponse
    /\ entities = <<>>
    /\ products = <<>>
    /\ view = NoView
    /\ csv = NoCsv
    /\ PageAtRest

NextRoute == Post

SpecRoute == InitRoute /\ [][NextRoute]_vars

\* ------------------------------------------------------- the whole page
\* Home from its mount on: the fetch of the product master, file choices,
\* processor choices, document processing through POST, and CSV downloads.
\* React renders again after every state change, so each handler ends with
\* the view of the new state.
Files == {"F1", "F2"}
ProcessorTypes == {"sannote", "yac"}
PageCatalogs == {<<ProductA>>, <<ProductB, ProductA>>}

RawOrderDate == RawNode(Some("order_date"), Some(<<"d">>), Absent, Some(90), Absent,
                        PageAt(Absent), Absent)
RawOrderCode == RawNode(Some("product_code"), Some(<<"1", "1", "1", "1", "2">>), Absent,
                        Some(90), Absent, PageAt(Absent), Absent)
RawOrderItem == RawNode(Some("item"), Absent, Absent, Some(90), Absent, PageAt(Absent),
                        Some(<<RawOrderCode>>))
PageDocuments == {Absent, Some(<<RawOrderDate>>), Some(<<RawOrderDate, RawOrderItem>>)}

\* The form data of one click and what the server will find for it.
PageRequests(file, type) ==
    {[hasFile |-> TRUE, hasEnv |-> hasEnv, outcome |-> outcome, text |-> RouteText,
      entities |-> forest, pages |-> Some(<<1>>), file |-> file, processorType |-> type] :
        hasEnv \in BOOLEAN, outcome \in {"throws", "none", "document"},
        forest \in PageDocuments}

Init ==
    /\ request = NoRequest
    /\ response = NoResponse
    /\ entities = <<>>
    /\ products = <<>>
    /\ view = HomeView(<<>>, <<>>, "pending")
    /\ csv = NoCsv
    /\ selectedFile = Absent
    /\ isLoading = FALSE
    /\ error = ""
    /\ processorType = "sannote"
    /\ productsFetch = "pending"

\* useEffect: /api/products answers the master, setProducts(data.products).
ProductsLoaded ==
    /\ productsFetch = "pending"
    /\ ~view.crashed
    /\ \E catalog \in PageCatalogs : products' = catalog
    /\ productsFetch' = "loaded"
    /\ view' = HomeView(entities, products', productsFetch')
    /\ UNCHANGED <<request, response, entities, csv, selectedFile, isLoading, error,
                   processorType>>

\* useEffect: /api/products answers its 500 body { error }, which is JSON
\* without a products key: setProducts(undefined).
ProductsUndefined ==
    /\ productsFetch = "pending"
    /\ ~view.crashed
    /\ productsFetch' = "undefined"
    /\ view' = HomeView(entities, products, productsFetch')
    /\ UNCHANGED <<request, response, entities, products, csv, selectedFile, isLoading,
                   error, processorType>>

\* useEffect: the fetch rejects or the body is no JSON; .catch logs it.
ProductsFailed ==
    /\ productsFetch = "pending"
    /\ ~view.crashed
    /\ productsFetch' = "failed"
    /\ UNCHANGED <<request, response, entities, products, view, csv, selectedFile,
                   isLoading, error, processorType>>

HandleFileChange ==
    /\ ~view.crashed
    /\ \E file \in Files : selectedFile' = Some(file)
    /\ entities' = <<>>
    /\ error' = ""
    /\ view' = HomeView(entities', products, productsFetch)
    /\ UNCHANGED <<request, response, products, csv, isLoading, processorType,
                   productsFetch>>

SetProcessorType ==
    /\ ~view.crashed
    /\ \E type \in ProcessorTypes \ {processorType} : processorType' = type
    /\ UNCHANGED <<request, response, entities, products, view, csv, selectedFile,
                   isLoading, error, productsFetch>>

\* A click that leaves the entities of the last document on the page.
HandleProcessDocument_KeepsEntities ==
    /\ ~view.crashed
    /\ selectedFile /= Absent
    /\ ~isLoading
    /\ isLoading' = TRUE
    /\ error' = ""
    /\ request' \in PageRequests(selectedFile[1], processorType)
    /\ UNCHANGED <<response, entities, products, view, csv, selectedFile, processorType,
                   productsFetch>>

\* The click on the process button (disabled without a file or while
\* loading), up to the fetch.
HandleProcessDocument ==
    /\ ~view.crashed
    /\ selectedFile /= Absent
    /\ ~isLoading
    /\ isLoading' = TRUE
    /\ error' = ""
    /\ entities' = <<>>
    /\ request' \in PageRequests(selectedFile[1], processorType)
    /\ view' = HomeView(entities', products, productsFetch)
    /\ UNCHANGED <<response, products, csv, selectedFile, processorType, productsFetch>>

\* A continuation without the finally block: a failure leaves isLoading set.
ProcessDocumentSettled_NoFinally ==
    /\ ~view.crashed
    /\ isLoading
    /\ response /= NoResponse
    /\ IF response.status = 200
       THEN entities' = response.entities[1] /\ UNCHANGED error /\ isLoading' = FALSE
       ELSE error' = response.error /\ UNCHANGED <<entities, isLoading>>
    /\ request' = NoRequest
    /\ response' = NoResponse
    /\ view' = HomeView(entities', products, productsFetch)
    /\ UNCHANGED <<products, csv, selectedFile, processorType, productsFetch>>

\* handleProcessDocument after the await: the response has come.
ProcessDocumentSettled ==
    /\ ~view.crashed
    /\ isLoading
    /\ response /= NoResponse
    /\ IF response.status = 200
       THEN entities' = response.entities[1] /\ UNCHANGED error
       ELSE error' = response.error /\ UNCHANGED entities
    /\ isLoading' = FALSE
    /\ request' = NoRequest
    /\ response' = NoResponse
    /\ view' = HomeView(entities', products, productsFetch)
    /\ UNCHANGED <<products, csv, selectedFile, processorType, productsFetch>>

\* handleProcessDocument after the await: the fetch rejected.
ProcessDocumentRejected ==
    /\ ~view.crashed
    /\ isLoading
    /\ request /= NoRequest
    /\ error' = "Failed to fetch"
    /\ isLoading' = FALSE
    /\ request' = NoRequest
    /\ response' = NoResponse
    /\ UNCHANGED <<entities, products, view, csv, selectedFile, processorType,
                   productsFetch>>

\* The click on the download button, which the item table carries.
ClickDownloadCsv ==
    /\ view.rendered
    /\ view.rows /= <<>>
    /\ DownloadCsv

Next ==
    \/ ProductsLoaded
    \/ ProductsUndefined
    \/ ProductsFailed
    \/ HandleFileChange
    \/ SetProcessorType
    \/ HandleProcessDocument
    \/ Post
    \/ ProcessDocumentSettled
    \/ ProcessDocumentRejected
    \/ ClickDownloadCsv

Spec == Init /\ [][Next]_vars

\* The page when every fetch of /api/document-ai settles: the server answers
\* a request it has received, and the awaiting handler resumes.
FetchSettles ==
    /\ WF_vars(Post)
    /\ WF_vars(ProcessDocumentSettled \/ ProcessDocumentRejected)

SpecLive == Init /\ [][Next]_vars /\ FetchSettles

\* ---------------------------------------------------------- CSV export
\* Entities whose items carry cell texts over the characters the encoding
\* looks for, exported with handleDownloadCsv.
CsvAlphabet == {"a", ",", "\"", "\n"}
CsvTexts == Strings(CsvAlphabet, MaxFieldLen)
\* The entities of one document: a header field, an item with a plain cell
\* text and a product code the master matches, and an item with the drawn
\* cell text.
CsvNodes(text) ==
    {Leaf("order_date", <<"d">>),
     Node("item", Empty, Empty,
          <<Leaf("product_code", <<"1", "1", "1", "1", "2">>), Leaf("unit_price", <<"a">>)>>),
     Node("item", Empty, Empty, <<Leaf("unit_price", text)>>)}

InitCsv ==
    /\ request = NoRequest
    /\ response = NoResponse
    /\ \E text \in CsvTexts : entities \in SeqsUpTo(CsvNodes(text), MaxRows)
    /\ products = <<ProductA>>
    /\ view = NoView
    /\ csv = NoCsv
    /\ PageAtRest

NextCsv == DownloadCsv \/ Render

SpecCsv == InitCsv /\ [][NextCsv]_vars

\* --------------------------------------------------------------- claims
First4(code) == [k \in 1..4 |-> code[k]]
Matches(code) == {j \in DOMAIN products : products[j].product_code = First4(code)}
RowCode(row) == getPropertyValue(row.item, "product_code")

\* C1: a row is flagged (hasNoMatch) exactly when its original code has at
\* least 4 characters and no catalog entry carries the normalized code; a row
\* whose original code is shorter than 4 characters is never flagged.
C1_DiscrepancyFlag ==
    view.rendered =>
        \A i \in DOMAIN view.rows :
            LET row == view.rows[i]
            IN  /\ row.hasNoMatch <=> (Len(RowCode(row)) >= 4 /\ Matches(RowCode(row)) = {})
                /\ Len(row.originalCode) < 4 => ~row.hasNoMatch

C1_Witness ==
    /\ view.rendered
    /\ products /= <<>>
    /\ \E i \in DOMAIN view.rows :
          view.rows[i].hasNoMatch /\ Len(view.rows[i].originalCode) > 4

\* C2: a code shorter than 4 characters is its own normalized code; a code
\* of 4 characters or more normalizes to exactly its first 4 characters.
C2_Normalization ==
    view.rendered =>
        \A i \in DOMAIN view.rows :
            LET row == view.rows[i]
            IN  /\ Len(row.originalCode) < 4 => row.normalizedCode = row.originalCode
                /\ Len(row.originalCode) >= 4 =>
                      /\ Len(row.normalizedCode) = 4
                      /\ \A k \in 1..4 : row.normalizedCode[k] = row.originalCode[k]

C2_Witness ==
    /\ view.rendered
    /\ \E i \in DOMAIN view.rows :
          /\ Len(view.rows[i].originalCode) = 5
          /\ view.rows[i].originalCode[1] /= view.rows[i].originalCode[5]
          /\ Len(view.rows[i].normalizedCode) = 4

\* C3: with a code of 4 characters or more and a catalog match, the
\* product_code and product_name cells show the matched entry's code and
\* name; otherwise both cells show the raw resolved value of their column.
C3_Substitution ==
    view.rendered =>
        \A i \in DOMAIN view.rows :
            LET row == view.rows[i]
                code == RowCode(row)
            IN  IF Len(code) >= 4 /\ Matches(code) /= {}
                THEN \A j \in Matches(code) :
                        /\ row.cells["product_code"] = products[j].product_code
                        /\ row.cells["product_name"] = products[j].product_name
                ELSE /\ row.cells["product_code"] = getPropertyValue(row.item, "product_code")
                     /\ row.cells["product_name"] = getPropertyValue(row.item, "product_name")

C3_Witness ==
    /\ view.rendered
    /\ \E i \in DOMAIN view.rows :
          /\ Len(view.rows[i].originalCode) = 5
          /\ view.rows[i].matchedProduct /= <<>>
          /\ view.rows[i].cells["product_code"] /= view.rows[i].originalCode
          /\ view.rows[i].cells["product_name"] /= getPropertyValue(view.rows[i].item, "product_name")

\* C4: in every column other than product_code and product_name the cell is
\* the raw resolved value of that column, whatever the catalog holds.
C4_OtherColumnsRaw ==
    view.rendered =>
        \A i \in DOMAIN view.rows :
            \A k \in ColumnKeys \ {"product_code", "product_name"} :
                view.rows[i].cells[k] = getPropertyValue(view.rows[i].item, k)

C4_Witness ==
    /\ view.rendered
    /\ \E i \in DOMAIN view.rows :
          /\ view.rows[i].matchedProduct /= <<>>
          /\ Len(view.rows[i].originalCode) >= 4
          /\ view.rows[i].cells["quantity"] /= Dash
          /\ view.rows[i].cells["quantity"] /= view.rows[i].matchedProduct[1].product_name

\* C8: the resolved value of a column is decided by the first child of that
\* type alone: its value, else its normalizedValue, else the dash; the dash
\* when no child has the type.  Later children of the type change nothing.
ChildrenOfType(item, key) == {j \in DOMAIN item.properties : item.properties[j].type = key}
FirstOfType(item, key) ==
    CHOOSE j \in ChildrenOfType(item, key) : \A l \in ChildrenOfType(item, key) : j <= l
ResolvedExpected(item, key) ==
    IF ChildrenOfType(item, key) = {} THEN Dash
    ELSE LET first == item.properties[FirstOfType(item, key)]
         IN  IF first.value /= Empty THEN first.value
             ELSE IF first.normalizedValue /= Empty THEN first.normalizedValue
                  ELSE Dash

C8_FirstMatchWins ==
    view.rendered =>
        \A i \in DOMAIN view.rows :
            /\ view.rows[i].originalCode = ResolvedExpected(view.rows[i].item, "product_code")
            /\ \A k \in ColumnKeys \ {"product_code", "product_name"} :
                  view.rows[i].cells[k] = ResolvedExpected(view.rows[i].item, k)

C8_Witness ==
    /\ view.rendered
    /\ \E i \in DOMAIN view.rows :
          LET props == view.rows[i].item.properties
          IN  /\ Len(props) = 2
              /\ props[1].type = "quantity" /\ props[2].type = "quantity"
              /\ props[1].value = Empty /\ props[1].normalizedValue = Empty
              /\ props[2].value /= Empty
              /\ view.rows[i].cells["quantity"] = Dash

\* C6: the header is the top-level entities of a header type, in forest
\* order, followed by the name/address children of the recipient_company
\* entity, in child order; nothing is appended without such an entity.
IsHeaderType(e) == e.type \in {"address", "name", "delivery_phone_number", "order_date", "order_number"}
IsCompanyField(e) == e.type \in {"name", "address"}
Companies == {i \in DOMAIN entities : entities[i].type = "recipient_company"}
DirectMatches == SelectSeq(entities, IsHeaderType)
Promoted ==
    IF Companies = {} THEN <<>>
    ELSE SelectSeq(entities[CHOOSE i \in Companies : \A j \in Companies : i <= j].properties,
                   IsCompanyField)

C6_HeaderOrder ==
    view.rendered =>
        /\ view.header = DirectMatches \o Promoted
        /\ \A i \in DOMAIN view.header :
              /\ i <= Len(DirectMatches) => view.header[i] \in {entities[j] : j \in DOMAIN entities}
              /\ i > Len(DirectMatches) => IsCompanyField(view.header[i])
        /\ Companies = {} => Len(view.header) = Len(DirectMatches)

C6_Witness ==
    /\ view.rendered
    /\ Len(entities) = 3
    /\ entities[1].type = "recipient_company"
    /\ entities[2].type = "order_date"
    /\ Len(view.header) = 3
    /\ view.header[1].type = "order_date"
    /\ view.header[2].type = "address"
    /\ view.header[3].type = "name"

\* C7: the item table has one row per top-level entity of type "item", in
\* forest order; other entities and nested items give no row.
IsItem(e) == e.type = "item"

C7_ItemRows ==
    view.rendered =>
        /\ Len(view.rows) = Cardinality({i \in DOMAIN entities : entities[i].type = "item"})
        /\ [i \in DOMAIN view.rows |-> view.rows[i].item] = SelectSeq(entities, IsItem)

C7_Witness ==
    /\ view.rendered
    /\ Len(entities) = 3
    /\ entities[1].type = "item" /\ entities[3].type = "item"
    /\ entities[2].type /= "item"
    /\ entities[1] /= entities[3]
    /\ \E k \in DOMAIN entities[1].properties : entities[1].properties[k].type = "item"
    /\ Len(view.rows) = 2
    /\ view.rows[1].item = entities[1]

\* C5: a node's value is the mention text when present and non-empty;
\* otherwise, with a text anchor of at least one segment, the trimmed
\* concatenation (no separator) of fullText[start, end) over the segments in
\* order; otherwise the empty string.
OffsetOf(opt) == IF opt = <<>> THEN 0 ELSE opt[1]
\* fullText[start, end): the characters at the 0-based positions start..end-1.
HalfOpen(text, start, end) ==
    LET last == IF end < Len(text) THEN end ELSE Len(text)
    IN  IF last <= start THEN <<>> ELSE [k \in 1..(last - start) |-> text[start + k]]
RECURSIVE Concatenated(_, _)
Concatenated(segments, text) ==
    IF segments = <<>> THEN <<>>
    ELSE Concatenated(SubSeq(segments, 1, Len(segments) - 1), text)
         \o HalfOpen(text, OffsetOf(segments[Len(segments)].startIndex),
                     OffsetOf(segments[Len(segments)].endIndex))
Trimmed(s) ==
    LET inked == {i \in DOMAIN s : s[i] \notin {" ", "\n", "\t", "\r"}}
    IN  IF inked = {} THEN <<>>
        ELSE SubSeq(s, CHOOSE i \in inked : \A j \in inked : i <= j,
                       CHOOSE i \in inked : \A j \in inked : j <= i)
ValueExpected(raw, text) ==
    IF raw.mentionText /= <<>> /\ raw.mentionText[1] /= <<>> THEN raw.mentionText[1]
    ELSE IF /\ raw.textAnchor /= <<>>
            /\ raw.textAnchor[1].textSegments /= <<>>
            /\ Len(raw.textAnchor[1].textSegments[1]) >= 1
         THEN Trimmed(Concatenated(raw.textAnchor[1].textSegments[1], text))
         ELSE <<>>

C5_ValueResolution ==
    response.status = 200 =>
        /\ Len(response.entities[1]) = Len(request.entities[1])
        /\ \A i \in DOMAIN response.entities[1] :
              response.entities[1][i].value =
                  ValueExpected(request.entities[1][i],
                                IF request.text = <<>> THEN <<>> ELSE request.text[1])

C5_Witness ==
    /\ response.status = 200
    /\ request.entities[1][1].mentionText = Some(<<>>)
    /\ request.entities[1][1].textAnchor /= Absent
    /\ request.entities[1][1].textAnchor[1].textSegments /= Absent
    /\ Len(request.entities[1][1].textAnchor[1].textSegments[1]) = 2
    /\ response.entities[1][1].value = <<"b", "a">>

\* C9 as stated: the export succeeds for every item row sequence, and with
\* no item rows the payload is the header line alone.
HeaderLine ==
    <<"L_jan_code">> \o Comma \o <<"L_product_code">> \o Comma \o <<"L_product_name">> \o Comma
    \o <<"L_quantity_per_case">> \o Comma \o <<"L_box_count">> \o Comma \o <<"L_case_count">>
    \o Comma \o <<"L_quantity">> \o Comma \o <<"L_unit_price">> \o Comma \o <<"L_amount">>
    \o Comma \o <<"L_delivery_date">>
ItemCount == Cardinality({i \in DOMAIN entities : entities[i].type = "item"})

C9_EmptyExportHeaderOnly ==
    csv.called =>
        /\ csv.downloaded
        /\ ItemCount = 0 => csv.payload = <<"BOM">> \o HeaderLine

\* C9 (amended): the export produces a payload, the marker and the header
\* line first, exactly when there is at least one item row; with no item
\* rows handleDownloadCsv returns without producing anything.
C9_ExportNeedsRows ==
    csv.called =>
        /\ csv.downloaded <=> ItemCount > 0
        /\ ItemCount = 0 => csv.payload = <<>>
        /\ ItemCount > 0 =>
              /\ Len(csv.payload) > Len(HeaderLine) + 1
              /\ SubSeq(csv.payload, 1, Len(HeaderLine) + 1) = <<"BOM">> \o HeaderLine

C9_Witness ==
    /\ csv.called
    /\ entities /= <<>>
    /\ ItemCount = 0
    /\ ~csv.downloaded

\* C10: an exported field is wrapped in double quotes, its own double quotes
\* doubled, exactly when its value holds a comma, a double quote or a line
\* break; every other value is written as it is.
NeedsQuoting(value) == \E i \in DOMAIN value : value[i] \in {",", "\"", "\n"}
QuotesBefore(value, i) == Cardinality({j \in 1..(i - 1) : value[j] = "\""})
QuoteCount(value) == Cardinality({j \in DOMAIN value : value[j] = "\""})
\* value between quotes: character i lands at i + 1 + (quotes before it), and a
\* quote is followed by a second one.
IsWrapped(field, value) ==
    /\ Len(field) = Len(value) + QuoteCount(value) + 2
    /\ field[1] = "\"" /\ field[Len(field)] = "\""
    /\ \A i \in DOMAIN value :
          /\ field[i + 1 + QuotesBefore(value, i)] = value[i]
          /\ value[i] = "\"" => field[i + 2 + QuotesBefore(value, i)] = "\""
ExportedItems == SelectSeq(entities, IsItem)

C10_FieldEncoding ==
    csv.downloaded =>
        \A i \in DOMAIN csv.rows : \A c \in DOMAIN ITEM_COLUMNS :
            LET value == getCorrectedValue(ExportedItems[i], ITEM_COLUMNS[c].key, products)
            IN  /\ NeedsQuoting(value) => IsWrapped(csv.rows[i][c], value)
                /\ ~NeedsQuoting(value) => csv.rows[i][c] = value

C10_Witness ==
    /\ csv.downloaded
    /\ \E i \in DOMAIN csv.rows :
          /\ getCorrectedValue(ExportedItems[i], "unit_price", products) = <<",", "\"">>
          /\ csv.rows[i][8] = <<"\"", ",", "\"", "\"", "\"">>

\* C11: the exported payload, read after the byte-order marker by an
\* RFC-4180 style parser, gives back one record per line written (header and
\* rows), ten fields per record, and in each field exactly the value exported.
\* The parser: a field that opens with a quote runs to its closing quote, ""
\* inside it standing for one quote; any other field runs to the next comma
\* or line break.  A record ends at a line break or at the end of the text.
QuotesIn(text, from, to) == Cardinality({k \in from..to : text[k] = "\""})
\* The closing quote of the quoted field opening at i: the first quote that
\* does not open or close a "" pair; 0 when the field is never closed.
ClosingQuote(text, i) ==
    LET closers == {j \in (i + 1)..Len(text) :
                       /\ text[j] = "\""
                       /\ QuotesIn(text, i + 1, j - 1) % 2 = 0
                       /\ j = Len(text) \/ text[j + 1] /= "\""}
    IN  IF closers = {} THEN 0 ELSE CHOOSE j \in closers : \A k \in closers : j <= k
\* The position of the delimiter that ends the field starting at i
\* (Len(text) + 1 at the end of the text); 0 for a malformed field.
FieldEnd(text, i) ==
    IF i <= Len(text) /\ text[i] = "\""
    THEN LET close == ClosingQuote(text, i)
         IN  IF close = 0 THEN 0
             ELSE IF close < Len(text) /\ text[close + 1] \notin {",", "\n"} THEN 0
             ELSE close + 1
    ELSE LET stops == {j \in i..Len(text) : text[j] \in {",", "\n"}}
         IN  IF stops = {} THEN Len(text) + 1
             ELSE CHOOSE j \in stops : \A k \in stops : j <= k
\* The text of the field starting at i and ending before the delimiter at end.
FieldText(text, i, end) ==
    IF i <= Len(text) /\ text[i] = "\""
    THEN LET kept == {k \in (i + 1)..(end - 2) :
                         text[k] = "\"" => QuotesIn(text, i + 1, k - 1) % 2 = 0}
         IN  [n \in 1..Cardinality(kept) |->
                 text[CHOOSE k \in kept : Cardinality({q \in kept : q < k}) = n - 1]]
    ELSE SubSeq(text, i, end - 1)
\* The record starting at i, as [fields, next]: next is the start of the
\* following record, Len(text) + 2 after the last one, 0 when malformed.
RECURSIVE CsvRecord(_, _, _)
CsvRecord(text, i, fields) ==
    LET end == FieldEnd(text, i)
    IN  IF end = 0 THEN [fields |-> <<>>, next |-> 0]
        ELSE IF end <= Len(text) /\ text[end] = ","
             THEN CsvRecord(text, end + 1, Append(fields, FieldText(text, i, end)))
             ELSE [fields |-> Append(fields, FieldText(text, i, end)), next |-> end + 1]
RECURSIVE CsvRecords(_, _, _)
CsvRecords(text, i, records) ==
    LET record == CsvRecord(text, i, <<>>)
    IN  IF record.next = 0 THEN <<>>
        ELSE IF record.next > Len(text) THEN Append(records, record.fields)
             ELSE CsvRecords(text, record.next, Append(records, record.fields))
ParsedPayload == CsvRecords(Tail(csv.payload), 1, <<>>)
ExportedValue(i, c) == getCorrectedValue(ExportedItems[i], ITEM_COLUMNS[c].key, products)

C11_RoundTrip ==
    csv.downloaded =>
        LET parsed == ParsedPayload
        IN  /\ csv.payload[1] = "BOM"
            /\ Len(parsed) = 1 + ItemCount
            /\ \A r \in DOMAIN parsed : Len(parsed[r]) = Len(ITEM_COLUMNS)
            /\ \A i \in 1..ItemCount : \A c \in DOMAIN ITEM_COLUMNS :
                  parsed[i + 1][c] = ExportedValue(i, c)

C11_Witness ==
    /\ csv.downloaded
    /\ ItemCount = 2
    /\ ExportedValue(2, 8) = <<"\"", ",", "\n">>
    /\ ExportedValue(1, 2) = <<"1", "1", "1", "1">>
    /\ Len(ParsedPayload) = 3
    /\ ParsedPayload[3][8] = <<"\"", ",", "\n">>

\* C12: the payload is the byte-order marker, the line of the column labels
\* in ITEM_COLUMNS order, then one line per item row in item order, each the
\* comma-joined encoded values of the ten columns; the values exported for a
\* row are the values the item table shows for that row.
RowLine(fields) ==
    fields[1] \o <<",">> \o fields[2] \o <<",">> \o fields[3] \o <<",">> \o fields[4] \o <<",">>
    \o fields[5] \o <<",">> \o fields[6] \o <<",">> \o fields[7] \o <<",">> \o fields[8]
    \o <<",">> \o fields[9] \o <<",">> \o fields[10]
PayloadOf(rows) ==
    LET upTo[n \in 0..Len(rows)] ==
            IF n = 0 THEN <<"BOM">> \o HeaderLine
            ELSE upTo[n - 1] \o <<"\n">> \o RowLine(rows[n])
    IN  upTo[Len(rows)]
Encodes(field, shown) ==
    IF NeedsQuoting(shown) THEN IsWrapped(field, shown) ELSE field = shown

C12_PayloadLayout ==
    csv.downloaded =>
        /\ Len(csv.rows) = ItemCount
        /\ \A i \in DOMAIN csv.rows : Len(csv.rows[i]) = 10
        /\ csv.payload = PayloadOf(csv.rows)
        /\ view.rendered =>
              /\ Len(view.rows) = Len(csv.rows)
              /\ \A i \in DOMAIN csv.rows : \A c \in 1..10 :
                    Encodes(csv.rows[i][c], view.rows[i].cells[ITEM_COLUMNS[c].key])

C12_Witness ==
    /\ csv.downloaded
    /\ view.rendered
    /\ Len(csv.rows) = 2
    /\ view.rows[1].cells["product_code"] = <<"1", "1", "1", "1">>
    /\ view.rows[1].originalCode = <<"1", "1", "1", "1", "2">>
    /\ csv.rows[1][2] = <<"1", "1", "1", "1">>
    /\ csv.rows[1][3] = <<"A">>
    /\ view.rows[2].cells["unit_price"] = <<"a", ",">>

\* C19: with several top-level recipient_company entities only the first in
\* forest order gives promoted fields: the header holds, after the direct
\* matches, as many fields as the first one has name/address children, each a
\* child of the first one, and no child of a later one that the first lacks.
FirstCompany == CHOOSE i \in Companies : \A j \in Companies : i <= j
CompanyFields(i) ==
    {entities[i].properties[k] : k \in {l \in DOMAIN entities[i].properties :
                                            entities[i].properties[l].type \in {"name", "address"}}}
PromotedTail == SubSeq(view.header, Len(DirectMatches) + 1, Len(view.header))

C19_FirstCompanyOnly ==
    (view.rendered /\ Cardinality(Companies) >= 2) =>
        /\ Len(PromotedTail) =
              Cardinality({l \in DOMAIN entities[FirstCompany].properties :
                              entities[FirstCompany].properties[l].type \in {"name", "address"}})
        /\ \A n \in DOMAIN PromotedTail : PromotedTail[n] \in CompanyFields(FirstCompany)
        /\ \A j \in Companies \ {FirstCompany} :
              \A f \in CompanyFields(j) \ CompanyFields(FirstCompany) :
                  \A n \in DOMAIN PromotedTail : PromotedTail[n] /= f

C19_Witness ==
    /\ view.rendered
    /\ Len(entities) = 3
    /\ entities[1].type = "recipient_company"
    /\ entities[2].type = "name"
    /\ entities[3].type = "recipient_company"
    /\ CompanyFields(1) /= {}
    /\ CompanyFields(3) \ CompanyFields(1) /= {}
    /\ Len(view.header) = 2

\* C15: when processDocument gives no document, or throws, the response is
\* a 500 error response with a message and no entities list; a response
\* carries entities only for a document, one flattened node per top-level
\* entity of it.
RawTops == IF request.entities = <<>> THEN <<>> ELSE request.entities[1]
Answered == response.status /= 0
TypeOf(raw) == IF raw.type = <<>> THEN "" ELSE raw.type[1]

C15_NoPartialResult ==
    Answered =>
        /\ (request.hasFile /\ request.hasEnv /\ request.outcome \in {"none", "throws"}) =>
              /\ response.status = 500
              /\ response.error /= ""
              /\ response.entities = <<>>
        /\ response.entities /= <<>> =>
              /\ request.outcome = "document"
              /\ Len(response.entities[1]) = Len(RawTops)
              /\ \A i \in DOMAIN RawTops : response.entities[1][i].type = TypeOf(RawTops[i])

C15_Witness ==
    /\ Answered
    /\ request.hasFile /\ request.hasEnv
    /\ request.outcome = "none"
    /\ request.entities /= <<>>
    /\ response.status = 500

\* C17: every flattened node, at any depth, has a confidence between 0 and
\* 1 (0..100 hundredths), and it is exactly 0 where the raw entity has none.
RawChildren(raw) == IF raw.properties = <<>> THEN <<>> ELSE raw.properties[1]
RECURSIVE ConfidenceInRange(_, _)
ConfidenceInRange(raw, node) ==
    /\ node.confidence \in 0..100
    /\ raw.confidence = <<>> => node.confidence = 0
    /\ \A i \in DOMAIN RawChildren(raw) \cap DOMAIN node.properties :
          ConfidenceInRange(RawChildren(raw)[i], node.properties[i])

C17_ConfidenceRange ==
    response.status = 200 =>
        \A i \in DOMAIN RawTops \cap DOMAIN response.entities[1] :
            ConfidenceInRange(RawTops[i], response.entities[1][i])

C17_Witness ==
    /\ response.status = 200
    /\ RawTops = <<[RawName EXCEPT !.properties =
                       Some(<<[RawItem EXCEPT !.properties = Some(<<RawName>>)], RawQuantity>>)]>>
    /\ response.entities[1][1].confidence = 0
    /\ response.entities[1][1].properties[1].confidence = 100
    /\ response.entities[1][1].properties[1].properties[1].confidence = 0
    /\ response.entities[1][1].properties[2].confidence = 50

\* C18: at every depth the flattened node has one property per raw child,
\* in the child's position (same type, same resolved value, and so on
\* below), and an empty sequence where the raw entity has no child list or
\* an empty one; the root nodes keep the order of the top-level entities.
RECURSIVE Mirrors(_, _, _)
Mirrors(raw, node, text) ==
    /\ node.type = TypeOf(raw)
    /\ node.value = ValueExpected(raw, text)
    /\ DOMAIN node.properties = 1..Len(RawChildren(raw))
    /\ \A i \in 1..Len(RawChildren(raw)) :
          Mirrors(RawChildren(raw)[i], node.properties[i], text)

C18_RecursiveFlattening ==
    response.status = 200 =>
        /\ DOMAIN response.entities[1] = 1..Len(RawTops)
        /\ \A i \in 1..Len(RawTops) :
              Mirrors(RawTops[i], response.entities[1][i],
                      IF request.text = <<>> THEN <<>> ELSE request.text[1])

C18_Witness ==
    /\ response.status = 200
    /\ RawTops = <<RawCode,
                   [RawItem EXCEPT !.properties =
                       Some(<<RawQuantity, [RawName EXCEPT !.properties = Some(<<RawAddress>>)]>>)]>>
    /\ response.entities[1][1].type = "product_code"
    /\ response.entities[1][2].properties[1].type = "quantity"
    /\ response.entities[1][2].properties[2].value = <<"a">>
    /\ response.entities[1][2].properties[2].properties[1].type = "address"
    /\ response.entities[1][2].properties[2].properties[1].properties = <<>>

\* C20: feeding a flattened node back as a raw entity (value as mention
\* text, page - 1 as the page reference, normalizedValue as the normalized
\* text, properties as children) and flattening it again gives the same node.
RECURSIVE Refeed(_)
Refeed(node) ==
    [type            |-> <<node.type>>,
     mentionText     |-> <<node.value>>,
     textAnchor      |-> <<>>,
     confidence      |-> <<node.confidence>>,
     normalizedValue |-> <<[text |-> <<node.normalizedValue>>]>>,
     pageAnchor      |-> <<[pageRefs |-> << <<[page |-> <<node.page - 1>>]>> >>]>>,
     properties      |-> <<[i \in DOMAIN node.properties |-> Refeed(node.properties[i])]>>]

C20_Idempotent ==
    response.status = 200 =>
        \A i \in DOMAIN response.entities[1] :
            processEntity(Refeed(response.entities[1][i]),
                          IF request.text = <<>> THEN <<>> ELSE request.text[1])
                = response.entities[1][i]

C20_Witness ==
    /\ response.status = 200
    /\ RawTops = <<[RawName EXCEPT !.properties =
                       Some(<<[RawItem EXCEPT !.properties = Some(<<RawUntyped>>)]>>)]>>
    /\ response.entities[1][1].value = <<"a">>
    /\ response.entities[1][1].page = 1
    /\ response.entities[1][1].properties[1].page = 3
    /\ response.entities[1][1].properties[1].properties[1].type = ""
    /\ processEntity(Refeed(response.entities[1][1]), <<>>) = response.entities[1][1]

\* C13: no item row is on the page while the product master is anything but
\* fully loaded.
C13_CatalogLoadedFirst ==
    view.rows /= <<>> => productsFetch = "loaded"

\* C14: whatever the load of the product master gave, rendering never
\* throws.
C14_NeverAborts == ~view.crashed

\* C16: the page never holds an error message and entities together; with
\* an error on the page the entity list is empty.
C16_ErrorOrEntities ==
    ~(error /= "" /\ entities /= <<>>)

C16_Witness ==
    /\ error /= ""
    /\ entities = <<>>
    /\ ~isLoading
    /\ csv.downloaded
    /\ view.rendered

\* C21: rendering and exporting leave the entities and the products as they
\* were, and each table row holds its item entity as the list has it: the
\* corrected values are new values beside it.
C21_NothingMutated ==
    /\ [][entities' = entities /\ products' = products]_vars
    /\ [](view.rendered =>
             /\ Len(view.rows) = Len(itemEntities(entities))
             /\ \A i \in DOMAIN view.rows : view.rows[i].item = itemEntities(entities)[i])

C21_Witness ==
    /\ view.rendered
    /\ csv.downloaded
    /\ Len(view.rows) = 1
    /\ view.rows[1].cells["product_code"] = <<"1", "1", "1", "1">>
    /\ csv.rows[1][2] = <<"1", "1", "1", "1">>
    /\ getPropertyValue(itemEntities(entities)[1], "product_code") = <<"1", "1", "1", "1", "2">>
    /\ products = <<ProductA>>

\* C22: whenever a response populates the entity list, the request it
\* answers was sent for the file that is selected now.
C22_EntitiesOfSelectedFile ==
    [][(isLoading /\ ~isLoading' /\ entities' /= <<>>) => request.file = selectedFile[1]]_vars

\* C23: a started request ends the loading state; when it ends, either the
\* entities were set from a successful response and no error, or an error
\* was set and the entities left alone, never both; and while loading no
\* other request is started.
C23_LoadingEnds ==
    /\ isLoading ~> ~isLoading
    /\ [][(isLoading /\ ~isLoading') =>
             \/ /\ response.status = 200
                /\ entities' = response.entities[1]
                /\ error' = ""
             \/ /\ error' /= ""
                /\ error = ""
                /\ entities' = entities]_vars
    /\ [][isLoading => (request' = request \/ request' = NoRequest)]_vars

C23_Witness ==
    /\ ~isLoading
    /\ request = NoRequest
    /\ selectedFile /= <<>>
    /\ error = ""
    /\ view.rows /= <<>>
    /\ productsFetch = "loaded"

\* C24: the normalized code of a row has at most 4 characters and normalizes
\* to itself; and a displayed product code that differs from the extracted
\* one has exactly 4 characters and is the code of a catalog entry.
Renormalized(code) ==
    normalizeAndValidateProductCode(
        [type |-> "item", value |-> <<>>, confidence |-> 0, normalizedValue |-> <<>>,
         page |-> 1,
         properties |-> <<[type |-> "product_code", value |-> code, confidence |-> 0,
                           normalizedValue |-> <<>>, page |-> 1, properties |-> <<>>]>>],
        products).normalizedCode

C24_NormalizationIdempotent ==
    view.rendered =>
        \A i \in DOMAIN view.rows :
            LET row == view.rows[i]
                shown == row.cells["product_code"]
            IN  /\ Len(row.normalizedCode) <= 4
                /\ Renormalized(row.normalizedCode) = row.normalizedCode
                /\ shown /= row.originalCode =>
                      /\ Len(shown) = 4
                      /\ \E j \in DOMAIN products : products[j].product_code = shown

C24_Witness ==
    /\ view.rendered
    /\ Len(view.rows) = 1
    /\ view.rows[1].originalCode = <<"1", "1", "1", "2", "1">>
    /\ view.rows[1].normalizedCode = <<"1", "1", "1", "2">>
    /\ view.rows[1].cells["product_code"] = <<"1", "1", "1", "2">>
    /\ Renormalized(<<"1", "1", "1", "2">>) = <<"1", "1", "1", "2">>
    /\ products = <<ProductB, ProductA>>

====
